---------------------------- MODULE Spec2Model ----------------------------
(***************************************************************************)
(* The MXNet MNIST batch-transform notebook                                *)
(* (sagemaker-python-sdk/mxnet_mnist/mxnet_mnist_with_batch_transform)     *)
(* as a state machine: one action per code cell, plus the steps of the     *)
(* two SageMaker jobs the notebook blocks on.  Text is a sequence of       *)
(* one-character strings; a number is an integer count of tenths (the      *)
(* floats the artifact holds, kept to one fractional digit).               *)
(***************************************************************************)
EXTENDS Integers, Sequences, FiniteSets, TLC

VARIABLES
    pc,               \* the cell the kernel runs next, "done" or "aborted"
    executed,         \* the cells run so far, in order
    bucket,           \* bucket = Session().default_bucket()
    trainStatus,      \* TrainingJobStatus of the job fit() submitted
    transformStatus,  \* TransformJobStatus of the job transform() submitted
    output_path,      \* transformer.output_path
    served,           \* the predictions the transform job computed
    s3obj,            \* the object the transform job wrote
    fetched,          \* the (bucket, key) the fetch cell asked S3 for
    output,           \* the notebook global `output`
    probabilities,    \* the notebook global `probabilities`
    prediction,       \* the notebook global `prediction`
    printed,          \* what the last cell printed
    raised,           \* the exception the failing call raised
    error,            \* the exception the kernel shows the user
    estimatorUses,    \* calls made on mnist_estimator
    transformerUses,  \* calls and attribute reads made on transformer
    artifactReads     \* S3 gets of the output artifact

vars == <<pc, executed, bucket, trainStatus, transformStatus, output_path,
          served, s3obj, fetched, output, probabilities, prediction, printed,
          raised, error, estimatorUses, transformerUses, artifactReads>>

---------------------------------------------------------------------------
(* Bounds of the model. *)

\* longest probability vector drawn (besides the 10-class vectors)
MaxVec == 2
\* most records in one output artifact
MaxRecords == 2
\* longest generated job name / output path, in characters
MaxPath == 2
\* longest bucket name, in characters
MaxBucket == 2

\* "There are 10 classes (one for each of the 10 digits)."
NumClasses == 10

---------------------------------------------------------------------------
(* Text. *)

Digits == <<"0", "1", "2", "3", "4", "5", "6", "7", "8", "9">>

IsDigit(c) == \E d \in 1..10 : Digits[d] = c

DigitVal(c) == (CHOOSE d \in 1..10 : Digits[d] = c) - 1

\* s[i:] of Python, i counted from 0
Slice(s, i) == IF i >= Len(s) THEN <<>> ELSE SubSeq(s, i + 1, Len(s))

\* the sequences over S of length lo..hi
SeqsOf(S, lo, hi) == UNION {[1..n -> S] : n \in lo..hi}

Abs(n) == IF n < 0 THEN -n ELSE n

\* F of the value of x, x worked out once
With(x, F(_)) == CHOOSE r \in {F(y) : y \in {x}} : TRUE

\* the index of the first character of s at or after i that is in stops,
\* Len(s) + 1 when there is none
RECURSIVE FindStop(_, _, _)
FindStop(s, i, stops) ==
    IF i > Len(s) THEN Len(s) + 1
    ELSE IF s[i] \in stops THEN i
    ELSE FindStop(s, i + 1, stops)

---------------------------------------------------------------------------
(* The output artifact's format: the literal text of a list of lists of    *)
(* floats, as the transform job writes it, "[[0.0, 1.0], [0.5]]".          *)

RECURSIVE EncodeNat(_)
EncodeNat(n) ==
    IF n < 10 THEN <<Digits[n + 1]>>
    ELSE EncodeNat(n \div 10) \o <<Digits[(n % 10) + 1]>>

\* a float of one fractional digit: -1.5, 0.0, 12.0
EncodeFloat(n) ==
    (IF n < 0 THEN <<"-">> ELSE <<>>)
        \o EncodeNat(Abs(n) \div 10) \o <<".">> \o <<Digits[(Abs(n) % 10) + 1]>>

\* texts joined by ", "
RECURSIVE JoinFrom(_, _, _)
JoinFrom(ts, i, acc) ==
    IF i > Len(ts) THEN acc
    ELSE With(acc \o <<",", " ">> \o ts[i], LAMBDA joined : JoinFrom(ts, i + 1, joined))

JoinComma(ts) == IF Len(ts) = 0 THEN <<>> ELSE JoinFrom(ts, 2, ts[1])

\* the literal text of a decoded value: a float, or "[" items "]"
RECURSIVE EncodeValue(_)
EncodeValue(x) ==
    IF x.t = "num" THEN EncodeFloat(x.v)
    ELSE With([i \in 1..Len(x.v) |-> EncodeValue(x.v[i])], LAMBDA items :
           <<"[">> \o JoinComma(items) \o <<"]">>)

---------------------------------------------------------------------------
(* ast.literal_eval on that text.  A decoded value is a number             *)
(* [t |-> "num", v |-> tenths] or a list [t |-> "list", v |-> <<values>>]. *)

Num(n) == [t |-> "num", v |-> n]

List(vs) == [t |-> "list", v |-> vs]

\* the value a list of lists of numbers decodes to
LitVector(v) == List([i \in 1..Len(v) |-> Num(v[i])])

LitOutput(o) == List([i \in 1..Len(o) |-> LitVector(o[i])])

ParseFail == [ok |-> FALSE, val |-> Num(0), next |-> 0]

\* SkipWs as a parser that takes no whitespace between tokens would have it
NoSkipWs(s, i) == i

\* spaces are skipped between tokens
RECURSIVE SkipWs(_, _)
SkipWs(s, i) == IF i <= Len(s) /\ s[i] = " " THEN SkipWs(s, i + 1) ELSE i

\* the digits of s from i on, as [val, next]
RECURSIVE ParseDigits(_, _, _)
ParseDigits(s, i, acc) ==
    IF i <= Len(s) /\ IsDigit(s[i])
    THEN ParseDigits(s, i + 1, acc * 10 + DigitVal(s[i]))
    ELSE [val |-> acc, next |-> i]

\* [-]digits[.[digit]]: a number of at most one fractional digit
ParseNumber(s, i) ==
    LET neg == i <= Len(s) /\ s[i] = "-"
        j == IF neg THEN i + 1 ELSE i
    IN  With(ParseDigits(s, j, 0), LAMBDA ip :
          LET dot == ip.next <= Len(s) /\ s[ip.next] = "."
          IN  With(IF dot THEN ParseDigits(s, ip.next + 1, 0)
                   ELSE [val |-> 0, next |-> ip.next], LAMBDA fp :
                LET mag == ip.val * 10 + fp.val
                IN  IF ip.next = j \/ (dot /\ fp.next > ip.next + 2) THEN ParseFail
                    ELSE [ok |-> TRUE, val |-> Num(IF neg THEN -mag ELSE mag),
                          next |-> fp.next]))

RECURSIVE ParseValue(_, _), ParseItems(_, _, _)
ParseValue(s, i) ==
    With(SkipWs(s, i), LAMBDA j :
      IF j > Len(s) THEN ParseFail
      ELSE IF s[j] = "[" THEN ParseItems(s, j + 1, <<>>)
      ELSE ParseNumber(s, j))

\* the items after a "[", up to its "]"; a trailing comma is allowed
ParseItems(s, i, acc) ==
    With(SkipWs(s, i), LAMBDA j :
      IF j > Len(s) THEN ParseFail
      ELSE IF s[j] = "]" THEN [ok |-> TRUE, val |-> List(acc), next |-> j + 1]
      ELSE With(ParseValue(s, j), LAMBDA item :
             IF ~item.ok THEN ParseFail
             ELSE With(SkipWs(s, item.next), LAMBDA k :
                    With(Append(acc, item.val), LAMBDA items :
                      IF k > Len(s) THEN ParseFail
                      ELSE IF s[k] = "," THEN ParseItems(s, k + 1, items)
                      ELSE IF s[k] = "]"
                           THEN [ok |-> TRUE, val |-> List(items), next |-> k + 1]
                      ELSE ParseFail))))

\* ast.literal_eval(text): the value, or the SyntaxError it raises
LiteralEval(text) ==
    With(ParseValue(text, 1), LAMBDA r :
      IF r.ok /\ SkipWs(text, r.next) > Len(text)
      THEN [ok |-> TRUE, val |-> r.val]
      ELSE [ok |-> FALSE, val |-> Num(0)])

---------------------------------------------------------------------------
(* urlparse(transformer.output_path) and the key the fetch cell builds.    *)

Letters == {"a", "b", "c", "d", "e", "f", "g", "h", "i", "j", "k", "l", "m",
            "n", "o", "p", "q", "r", "s", "t", "u", "v", "w", "x", "y", "z"}

SchemeChars == Letters \cup {Digits[d] : d \in 1..10} \cup {"+", "-", "."}

\* urllib.parse.urlparse: scheme up to the first ":", netloc after "//" up
\* to the first of "/?#", then the fragment and the query are cut off the path
UrlParse(url) ==
    With(FindStop(url, 1, {":"}), LAMBDA colon :
      LET hasScheme == /\ colon >= 2
                       /\ colon <= Len(url)
                       /\ \A k \in 1..(colon - 1) : url[k] \in SchemeChars
                       /\ \/ colon = Len(url)
                          \/ \E k \in (colon + 1)..Len(url) : ~IsDigit(url[k])
          scheme == IF hasScheme THEN SubSeq(url, 1, colon - 1) ELSE <<>>
      IN  With(IF hasScheme THEN Slice(url, colon) ELSE url, LAMBDA rest :
            LET hasNetloc == Len(rest) >= 2 /\ rest[1] = "/" /\ rest[2] = "/"
            IN  With(FindStop(rest, 3, {"/", "?", "#"}), LAMBDA stop :
                  LET netloc == IF hasNetloc THEN SubSeq(rest, 3, stop - 1) ELSE <<>>
                  IN  With(IF hasNetloc THEN Slice(rest, stop - 1) ELSE rest, LAMBDA rest2 :
                        With(SubSeq(rest2, 1, FindStop(rest2, 1, {"#"}) - 1), LAMBDA rest3 :
                          [scheme |-> scheme,
                           netloc |-> netloc,
                           path |-> SubSeq(rest3, 1, FindStop(rest3, 1, {"?"}) - 1)])))))

Suffix == <<"/", "d", "a", "t", "a", ".", "c", "s", "v", ".", "o", "u", "t">>

\* FileKey with every leading "/" of the path stripped, as lstrip('/') would
RECURSIVE StripSlashes(_)
StripSlashes(path) ==
    IF path # <<>> /\ path[1] = "/" THEN StripSlashes(Tail(path)) ELSE path

FileKeyStripped(parsed_url) == StripSlashes(parsed_url.path) \o Suffix

\* file_key = '{}/data.csv.out'.format(parsed_url.path[1:])
FileKey(parsed_url) == Slice(parsed_url.path, 1) \o Suffix

\* 's3://{}/{}'.format(bucket, name)
S3Url(b, name) == <<"s", "3", ":", "/", "/">> \o b \o <<"/">> \o name

\* where the transform job writes the result of data.csv: S3OutputPath is
\* s3://<bucket>/<prefix>, the object is <prefix>/data.csv.out in <bucket>
ServiceLocation(url) ==
    LET rest == Slice(url, 5)
        slash == FindStop(rest, 1, {"/"})
    IN  [bucket |-> SubSeq(rest, 1, slash - 1), key |-> Slice(rest, slash) \o Suffix]

---------------------------------------------------------------------------
(* The decode and arg-max cells' computations.                             *)

Unset == [t |-> "unset"]

Str(text) == [t |-> "str", v |-> text]

IntVal(k) == [t |-> "int", v |-> k]

Ok(x) == [ok |-> TRUE, val |-> x, err |-> "none"]

Raise(e) == [ok |-> FALSE, val |-> Unset, err |-> e]

EmptyMax == "ValueError: max() arg is an empty sequence"

\* SelectRecord reading the last record, output[-1]
SelectLastRecord(out) ==
    IF out.t # "list" THEN Raise("TypeError")
    ELSE IF Len(out.v) = 0 THEN Raise("IndexError")
    ELSE Ok(out.v[Len(out.v)])

\* probabilities = output[0]
SelectRecord(out) ==
    IF out.t # "list" THEN Raise("TypeError")
    ELSE IF Len(out.v) = 0 THEN Raise("IndexError")
    ELSE Ok(out.v[1])

\* max(v): the running maximum, replaced only by a strictly greater item
RECURSIVE PyMax(_, _, _)
PyMax(v, i, best) ==
    IF i > Len(v) THEN best
    ELSE With(IF v[i] > best THEN v[i] ELSE best, LAMBDA m : PyMax(v, i + 1, m))

\* PyIndex returning the last position holding x
PyIndexLast(v, x, i) == (CHOOSE k \in 1..Len(v) : v[k] = x /\ \A j \in (k + 1)..Len(v) : v[j] # x) - 1

\* v.index(x): the first position holding x, counted from 0
RECURSIVE PyIndex(_, _, _)
PyIndex(v, x, i) == IF v[i] = x THEN i - 1 ELSE PyIndex(v, x, i + 1)

\* ArgMax giving -1 for an empty vector instead of raising
ArgMaxSilent(probs) ==
    IF probs.t # "list" THEN Raise("TypeError")
    ELSE IF Len(probs.v) = 0 THEN Ok(IntVal(-1))
    ELSE IF \E i \in 1..Len(probs.v) : probs.v[i].t # "num" THEN Raise("TypeError")
    ELSE LET v == [i \in 1..Len(probs.v) |-> probs.v[i].v]
         IN  Ok(IntVal(PyIndex(v, PyMax(v, 2, v[1]), 1)))

\* prediction = probabilities.index(max(probabilities))
ArgMax(probs) ==
    IF probs.t # "list" THEN Raise("TypeError")
    ELSE IF Len(probs.v) = 0 THEN Raise(EmptyMax)
    ELSE IF \E i \in 1..Len(probs.v) : probs.v[i].t # "num" THEN Raise("TypeError")
    ELSE LET v == [i \in 1..Len(probs.v) |-> probs.v[i].v]
         IN  Ok(IntVal(PyIndex(v, PyMax(v, 2, v[1]), 1)))

---------------------------------------------------------------------------
(* The notebook run top to bottom: the kernel runs the cells in order and  *)
(* stops at the first cell that raises.                                    *)

CellOrder == <<"setup", "estimator", "fit", "transformer", "show_digit",
               "transform", "wait", "print_path", "fetch", "decode", "argmax">>

NextCell(cell) ==
    LET i == CHOOSE k \in 1..Len(CellOrder) : CellOrder[k] = cell
    IN  IF i = Len(CellOrder) THEN "done" ELSE CellOrder[i + 1]

Terminal == {"Completed", "Failed", "Stopped"}

NoError == "none"

NoObject == [present |-> FALSE, bucket |-> <<>>, key |-> <<>>, body |-> <<>>]

NoFetch == [issued |-> FALSE, bucket |-> <<>>, key |-> <<>>]

\* the two probabilities the workflow's artifacts are built from: 0.0, 1.0
Extremes == {0, 10}

Vectors(vals) == SeqsOf(vals, 0, MaxVec)

Outputs(vals) == SeqsOf(Vectors(vals), 0, MaxRecords)

\* what the model behind the transform job may return: a list of
\* prediction vectors, or (a script that does not batch) a bare vector or
\* a bare number
Servable ==
    {LitOutput(o) : o \in Outputs(Extremes)} \cup {Num(5), LitVector(<<5, 10>>)}

DefaultBuckets == {<<"b">>, <<"b", "-", "b">>}

JobNames == {<<"j">>}

ctlVars == <<pc, executed>>

errVars == <<raised, error>>

jobVars == <<trainStatus, transformStatus, served, s3obj>>

useVars == <<estimatorUses, transformerUses, artifactReads>>

dataVars == <<fetched, output, probabilities, prediction, printed>>

Init ==
    /\ pc = "setup"
    /\ executed = <<>>
    /\ bucket = <<>>
    /\ trainStatus = "none"
    /\ transformStatus = "none"
    /\ output_path = <<>>
    /\ served = Unset
    /\ s3obj = NoObject
    /\ fetched = NoFetch
    /\ output = Unset
    /\ probabilities = Unset
    /\ prediction = Unset
    /\ printed = Unset
    /\ raised = NoError
    /\ error = NoError
    /\ estimatorUses = 0
    /\ transformerUses = 0
    /\ artifactReads = 0

\* no cell catches anything: the exception a call raises is the one shown
Surface(e) == e

\* Abort as a cell that catches the exception and is run again
AbortRetry(e) ==
    /\ UNCHANGED ctlVars
    /\ raised' = e
    /\ error' = Surface(e)

\* the running cell raises e: the kernel stops the run
Abort(e) ==
    /\ pc' = "aborted"
    /\ executed' = executed
    /\ raised' = e
    /\ error' = Surface(e)

\* the running cell ends: the kernel goes on to the next one
Advance(cell) ==
    /\ pc' = NextCell(cell)
    /\ executed' = Append(executed, cell)
    /\ UNCHANGED errVars

\* bucket = Session().default_bucket(); role = get_execution_role()
SetupCell ==
    /\ pc = "setup"
    /\ \/ \E b \in DefaultBuckets : bucket' = b /\ Advance("setup")
       \/ bucket' = bucket /\ Abort("ClientError")
    /\ UNCHANGED <<output_path, jobVars, useVars, dataVars>>

\* mnist_estimator = MXNet(...): built locally, nothing is submitted
EstimatorCell ==
    /\ pc = "estimator"
    /\ Advance("estimator")
    /\ UNCHANGED <<bucket, output_path, jobVars, useVars, dataVars>>

\* mnist_estimator.fit(...): the training job is submitted
FitSubmit ==
    /\ pc = "fit"
    /\ estimatorUses' = estimatorUses + 1
    /\ \/ /\ trainStatus' = "InProgress"
          /\ pc' = "fit_wait"
          /\ UNCHANGED <<executed, errVars>>
       \/ /\ trainStatus' = trainStatus
          /\ Abort("ClientError")
    /\ UNCHANGED <<bucket, output_path, transformStatus, served, s3obj,
                   transformerUses, artifactReads, dataVars>>

\* the training service ends the job
TrainingEnds ==
    /\ trainStatus = "InProgress"
    /\ trainStatus' \in Terminal
    /\ UNCHANGED <<ctlVars, errVars, bucket, output_path, transformStatus, served,
                   s3obj, useVars, dataVars>>

\* FitReturn as fit(wait=False): the cell ends while the job still runs
FitReturnNoBlock ==
    /\ pc = "fit_wait"
    /\ Advance("fit")
    /\ UNCHANGED <<bucket, output_path, jobVars, useVars, dataVars>>

\* fit() blocks until the job is terminal and raises unless it completed
FitReturn ==
    /\ pc = "fit_wait"
    /\ trainStatus \in Terminal
    /\ IF trainStatus = "Completed" THEN Advance("fit") ELSE Abort("TrainingJobError")
    /\ UNCHANGED <<bucket, output_path, jobVars, useVars, dataVars>>

\* transformer = mnist_estimator.transformer(...): creates the model
TransformerCell ==
    /\ pc = "transformer"
    /\ estimatorUses' = estimatorUses + 1
    /\ \/ Advance("transformer")
       \/ Abort("ClientError")
    /\ UNCHANGED <<bucket, output_path, jobVars, transformerUses, artifactReads,
                   dataVars>>

\* the input sample is downloaded from S3 and shown
ShowDigitCell ==
    /\ pc = "show_digit"
    /\ \/ Advance("show_digit")
       \/ Abort("ClientError")
    /\ UNCHANGED <<bucket, output_path, jobVars, useVars, dataVars>>

\* transformer.transform(...): the transform job is submitted; its
\* output path is generated from the bucket and the job's name
TransformSubmit ==
    /\ pc = "transform"
    /\ transformerUses' = transformerUses + 1
    /\ \/ /\ \E name \in JobNames : output_path' = S3Url(bucket, name)
          /\ transformStatus' = "InProgress"
          /\ Advance("transform")
       \/ /\ UNCHANGED <<output_path, transformStatus>>
          /\ Abort("ClientError")
    /\ UNCHANGED <<bucket, trainStatus, served, s3obj, estimatorUses, artifactReads,
                   dataVars>>

\* the object a completed transform job leaves at its output path
Written(body) ==
    LET at == ServiceLocation(output_path)
    IN  [present |-> TRUE, bucket |-> at.bucket, key |-> at.key, body |-> body]

\* the transform service ends the job; a completed job has written its
\* artifact, the model's predictions as text or an empty object
TransformEnds ==
    /\ transformStatus = "InProgress"
    /\ \/ /\ transformStatus' = "Completed"
          /\ \/ \E x \in Servable : served' = x /\ s3obj' = Written(EncodeValue(x))
             \/ served' = Unset /\ s3obj' = Written(<<>>)
       \/ /\ transformStatus' \in {"Failed", "Stopped"}
          /\ UNCHANGED <<served, s3obj>>
    /\ UNCHANGED <<ctlVars, errVars, bucket, output_path, trainStatus, useVars, dataVars>>

\* WaitCell returning for a failed or stopped job without raising
WaitCellNoCheck ==
    /\ pc = "wait"
    /\ transformStatus \in Terminal
    /\ transformerUses' = transformerUses + 1
    /\ Advance("wait")
    /\ UNCHANGED <<bucket, output_path, jobVars, estimatorUses, artifactReads, dataVars>>

\* WaitCell as a single status poll: it raises while the job still runs
WaitCellNoBlock ==
    /\ pc = "wait"
    /\ transformStatus # "none"
    /\ transformerUses' = transformerUses + 1
    /\ IF transformStatus = "Completed" THEN Advance("wait") ELSE Abort("TransformJobError")
    /\ UNCHANGED <<bucket, output_path, jobVars, estimatorUses, artifactReads, dataVars>>

\* transformer.wait() blocks until the job is terminal and raises unless
\* it completed
WaitCell ==
    /\ pc = "wait"
    /\ transformStatus \in Terminal
    /\ transformerUses' = transformerUses + 1
    /\ IF transformStatus = "Completed" THEN Advance("wait") ELSE Abort("TransformJobError")
    /\ UNCHANGED <<bucket, output_path, jobVars, estimatorUses, artifactReads, dataVars>>

\* print(transformer.output_path)
PrintPathCell ==
    /\ pc = "print_path"
    /\ transformerUses' = transformerUses + 1
    /\ printed' = Str(output_path)
    /\ Advance("print_path")
    /\ UNCHANGED <<bucket, output_path, jobVars, estimatorUses, artifactReads,
                   fetched, output, probabilities, prediction>>

\* s3.Object(bucket_name, file_key).get()["Body"].read().decode('utf-8')
S3Get(b, key) ==
    IF s3obj.present /\ s3obj.bucket = b /\ s3obj.key = key
    THEN Ok(Str(s3obj.body))
    ELSE Raise("NoSuchKey")

\* FetchCell reading the artifact a second time when the first get fails
FetchCellRetry ==
    LET parsed_url == UrlParse(output_path)
        bucket_name == parsed_url.netloc
        file_key == FileKey(parsed_url)
    IN  /\ pc = "fetch"
        /\ transformerUses' = transformerUses + 1
        /\ fetched' = [issued |-> TRUE, bucket |-> bucket_name, key |-> file_key]
        /\ \E r \in {S3Get(bucket_name, file_key), Raise("ClientError")} :
              IF r.ok THEN output' = r.val /\ artifactReads' = artifactReads + 1 /\ Advance("fetch")
              ELSE output' = output /\ artifactReads' = artifactReads + 2 /\ Abort(r.err)
        /\ UNCHANGED <<bucket, output_path, jobVars, estimatorUses, probabilities,
                       prediction, printed>>

\* the artifact is located with urlparse and read from S3
FetchCell ==
    LET parsed_url == UrlParse(output_path)
        bucket_name == parsed_url.netloc
        file_key == FileKey(parsed_url)
    IN  /\ pc = "fetch"
        /\ transformerUses' = transformerUses + 1
        /\ artifactReads' = artifactReads + 1
        /\ fetched' = [issued |-> TRUE, bucket |-> bucket_name, key |-> file_key]
        /\ \E r \in {S3Get(bucket_name, file_key), Raise("ClientError")} :
              IF r.ok THEN output' = r.val /\ Advance("fetch")
              ELSE output' = output /\ Abort(r.err)
        /\ UNCHANGED <<bucket, output_path, jobVars, estimatorUses, probabilities,
                       prediction, printed>>

\* output = ast.literal_eval(output); probabilities = output[0]
DecodeCell ==
    LET lit == LiteralEval(output.v)
        rec == SelectRecord(lit.val)
    IN  /\ pc = "decode"
        /\ IF ~lit.ok
           THEN UNCHANGED <<output, probabilities>> /\ Abort("SyntaxError")
           ELSE /\ output' = lit.val
                /\ IF rec.ok
                   THEN probabilities' = rec.val /\ Advance("decode")
                   ELSE probabilities' = probabilities /\ Abort(rec.err)
        /\ UNCHANGED <<bucket, output_path, jobVars, useVars, fetched, prediction,
                       printed>>

\* prediction = probabilities.index(max(probabilities)); print(...)
ArgmaxCell ==
    LET r == ArgMax(probabilities)
    IN  /\ pc = "argmax"
        /\ IF r.ok
           THEN prediction' = r.val /\ printed' = r.val /\ Advance("argmax")
           ELSE UNCHANGED <<prediction, printed>> /\ Abort(r.err)
        /\ UNCHANGED <<bucket, output_path, jobVars, useVars, fetched, output,
                       probabilities>>

Next ==
    \/ SetupCell
    \/ EstimatorCell
    \/ FitSubmit
    \/ TrainingEnds
    \/ FitReturn
    \/ TransformerCell
    \/ ShowDigitCell
    \/ TransformSubmit
    \/ TransformEnds
    \/ WaitCell
    \/ PrintPathCell
    \/ FetchCell
    \/ DecodeCell
    \/ ArgmaxCell

Spec == Init /\ [][Next]_vars

\* the kernel keeps running cells, every submitted job ends and every
\* storage call returns
FairSpec == Init /\ [][Next]_vars /\ WF_vars(Next)

---------------------------------------------------------------------------
(* The cells' computations on wider inputs: the run is taken at the cell   *)
(* that computes, with the globals it reads drawn from bounded sets.       *)

BucketChars == {"b", "-"}

PathChars == {"a", "/", "?"}

Buckets == SeqsOf(BucketChars, 1, MaxBucket)

Paths == SeqsOf(PathChars, 0, MaxPath)

\* the probabilities the arg-max cell is tried on: 0.0, 0.5, 1.0
Probs == {0, 5, 10}

\* the numbers the decoder is tried on: -1.5, 0.0, 12.0
CodecNums == {-15, 0, 120}

\* the run has completed the first n cells, both jobs completed and the
\* transform job wrote x as text under the output path s3://b/name
Reached(n, b, name, x) ==
    /\ pc = NextCell(CellOrder[n])
    /\ executed = SubSeq(CellOrder, 1, n)
    /\ bucket = b
    /\ trainStatus = "Completed"
    /\ transformStatus = "Completed"
    /\ output_path = S3Url(b, name)
    /\ served = x
    /\ s3obj = Written(EncodeValue(x))
    /\ printed = Str(output_path)
    /\ prediction = Unset
    /\ raised = NoError
    /\ error = NoError
    /\ estimatorUses = 2

\* before the fetch cell, for any bucket and output path
UrlInit ==
    /\ \E b \in Buckets, p \in Paths : Reached(8, b, p, LitOutput(<<<<0, 10>>>>))
    /\ fetched = NoFetch
    /\ output = Unset
    /\ probabilities = Unset
    /\ transformerUses = 3
    /\ artifactReads = 0

UrlNext == FetchCell

UrlSpec == UrlInit /\ [][UrlNext]_vars

\* before the decode cell, the artifact fetched, for any list of lists
CodecInit ==
    /\ \E o \in Outputs(CodecNums) : Reached(9, <<"b">>, <<"j">>, LitOutput(o))
    /\ fetched = [issued |-> TRUE, bucket |-> s3obj.bucket, key |-> s3obj.key]
    /\ output = Str(s3obj.body)
    /\ probabilities = Unset
    /\ transformerUses = 4
    /\ artifactReads = 1

CodecNext == DecodeCell

CodecSpec == CodecInit /\ [][CodecNext]_vars

\* before the arg-max cell, for any probability vector, the 10-class
\* vectors among them
ArgmaxInit ==
    /\ \E v \in Vectors(Probs) \cup [1..NumClasses -> Extremes] :
          Reached(10, <<"b">>, <<"j">>, LitOutput(<<v>>))
    /\ fetched = [issued |-> TRUE, bucket |-> s3obj.bucket, key |-> s3obj.key]
    /\ output = served
    /\ probabilities = served.v[1]
    /\ transformerUses = 4
    /\ artifactReads = 1

ArgmaxNext == ArgmaxCell

ArgmaxSpec == ArgmaxInit /\ [][ArgmaxNext]_vars

---------------------------------------------------------------------------
(* Properties.                                                             *)

Ended == pc \in {"done", "aborted"}

\* C1: the S3 get of <output_path>/data.csv.out is issued only after the
\* transform job has reported Completed: in no reachable state has the
\* fetch been issued while the job is unsubmitted, running, failed or stopped.
C1_FetchOnlyAfterTransformSuccess ==
    (fetched.issued \/ artifactReads > 0 \/ output # Unset)
        => transformStatus = "Completed"

C1_Witness == fetched.issued /\ pc = "decode" /\ transformStatus = "Completed"

\* C2: the cells run in the one order of the notebook, each after the one
\* before it has ended: the transformer is created and the transform job
\* submitted only once the training job has completed, and the decode and
\* arg-max cells work on the text the fetch cell read from the artifact.
C2_StrictOrder ==
    /\ Len(executed) <= Len(CellOrder)
    /\ executed = SubSeq(CellOrder, 1, Len(executed))
    /\ pc = "fit_wait" => Len(executed) = 2
    /\ pc = "done" => executed = CellOrder
    /\ pc \notin {"fit_wait", "done", "aborted"} => pc = CellOrder[Len(executed) + 1]
    /\ (estimatorUses >= 2 \/ transformStatus # "none") => trainStatus = "Completed"
    /\ output # Unset => fetched.issued /\ s3obj.present
    /\ output.t \notin {"unset", "str"} => output = LiteralEval(s3obj.body).val
    /\ probabilities # Unset => probabilities = SelectRecord(LiteralEval(s3obj.body).val).val
    /\ prediction # Unset => Ok(prediction) = ArgMax(probabilities)

C2_Witness == pc = "done" /\ prediction.t = "int" /\ executed = CellOrder

\* C3: a failure at any cell aborts the run: the exception raised is the
\* one shown, unchanged; the run is then over for good (the failed cell
\* is not run again, no later cell runs) and no prediction exists.
C3_FailureAborts ==
    /\ [](raised # NoError =>
            /\ pc = "aborted"
            /\ error = raised
            /\ prediction = Unset
            /\ printed.t # "int")
    /\ [](pc = "aborted" => raised # NoError)
    /\ [][pc = "aborted" => UNCHANGED vars]_vars

C3_Witness == pc = "aborted" /\ error = "TransformJobError" /\ Len(executed) = 6

\* C4: for a non-empty probability vector the arg-max cell yields the
\* smallest index holding the maximum (the first of tied maxima), a valid
\* index of the vector, so one of 0..9 for a 10-class vector.
C4_FirstMaxIndex ==
    (pc # "argmax" /\ Len(probabilities.v) > 0) =>
        /\ pc = "done"
        /\ LET v == probabilities.v
               k == prediction.v + 1
           IN  /\ k \in 1..Len(v)
               /\ \A j \in 1..Len(v) : v[j].v <= v[k].v
               /\ \A j \in 1..(k - 1) : v[j].v < v[k].v
               /\ Len(v) = NumClasses => prediction.v \in 0..9

C4_Witness ==
    /\ pc = "done"
    /\ Len(probabilities.v) = NumClasses
    /\ prediction.v = 3
    /\ \E j \in 5..NumClasses : probabilities.v[j] = probabilities.v[4]

\* C5: for an empty probability vector the arg-max cell raises the error
\* that names the empty input, and no label is produced.
C5_EmptyVectorFails ==
    (pc # "argmax" /\ Len(probabilities.v) = 0) =>
        /\ pc = "aborted"
        /\ error = EmptyMax
        /\ prediction = Unset
        /\ printed.t # "int"

C5_Witness == pc = "aborted" /\ probabilities = List(<<>>) /\ error = EmptyMax

C7_RoundTrip ==
    pc # "decode" => output.t = "list" /\ output = served

C7_Witness ==
    /\ pc = "argmax"
    /\ output = served
    /\ Len(output.v) = MaxRecords
    /\ \E i \in 1..Len(output.v) : \E j \in 1..Len(output.v[i].v) : output.v[i].v[j].v < 0

\* the path component of the URL s3://<bucket>/<p>: "/" and p up to its
\* first "?" or "#"
UrlPathOf(p) == <<"/">> \o SubSeq(p, 1, FindStop(p, 1, {"?", "#"}) - 1)

\* C8: for the output path s3://<bucket>/<p> the fetch cell asks for the
\* object in <bucket> whose key is the URL path less its one leading "/",
\* followed by /data.csv.out, with nothing else changed.
C8_FetchLocation ==
    fetched.issued =>
        /\ fetched.bucket = bucket
        /\ fetched.key = Tail(UrlPathOf(Slice(output_path, Len(bucket) + 6))) \o Suffix

C8_Witness ==
    /\ fetched.issued
    /\ pc = "decode"
    /\ Len(fetched.key) = Len(Suffix) + 2
    /\ fetched.key[1] = "/"
    /\ fetched.key[2] = "/"

\* what the decode and arg-max cells make of a decoded output
Decide(out) ==
    LET rec == SelectRecord(out)
    IN  IF rec.ok THEN ArgMax(rec.val) ELSE rec

\* how the run ended
RunOutcome == IF pc = "done" THEN Ok(prediction) ELSE Raise(error)

\* the records that may follow the first one
Tails == {LitOutput(o).v : o \in SeqsOf(Vectors(Extremes), 0, MaxRecords - 1)}

\* C9: the label depends on element 0 of the decoded output alone: any
\* output with the same first record and other records after it ends the
\* run the same way.
C9_OnlyFirstRecord ==
    (Ended /\ output.t = "list" /\ Len(output.v) >= 1) =>
        \A tail \in Tails : Decide(List(<<output.v[1]>> \o tail)) = RunOutcome

C9_Witness ==
    /\ pc = "done"
    /\ Len(output.v) = 2
    /\ ArgMax(output.v[2]) # Ok(prediction)

\* C10: when the jobs end and the storage calls return, the run ends, with
\* a prediction printed or aborted with an error; while a job is running
\* the cell that blocks on it does not end.
C10_RunEnds ==
    /\ <>Ended
    /\ [](pc = "done" => prediction.t = "int" /\ printed = prediction)
    /\ [](pc = "aborted" => error # NoError)
    /\ [][/\ (pc = "fit_wait" /\ trainStatus \notin Terminal) => pc' = pc
          /\ (pc = "wait" /\ transformStatus \notin Terminal) => pc' = pc]_vars

C10_Witness == pc = "done" /\ printed.t = "int" /\ trainStatus = "Completed"

===========================================================================
